---- MODULE Spec2Model ----
(***************************************************************************)
(* Model of the layered map composer of EDA_housing_market                 *)
(* (src/geo_plot.py) and of the normalisation helper (src/cust_func.py).   *)
(*                                                                         *)
(* A DataFrame is a function from column names to columns (sequences of    *)
(* equal length); a plotly Figure is a record [data, layout] where data is *)
(* the trace list and layout a partial map from property names to values.  *)
(* Floats the code handles are kept exact: a quotient is a reduced         *)
(* fraction [num, den], 0/0 is NaN == [num |-> 0, den |-> 0].              *)
(***************************************************************************)
EXTENDS Integers, Sequences, FiniteSets, TLC

VARIABLES
    fig,            \* the canvas (go.Figure): [data |-> traces, layout |-> map]
    df_houses,      \* caller's house dataset (or None)
    df_schools,     \* caller's school dataset (or None)
    df_county,      \* caller's region dataset (or None)
    parks,          \* park geometry collection (or None)
    county,         \* region geometry collection (or None)
    save_png,       \* export path (or None)
    lat,            \* map centre latitude  (1e-4 degrees)
    lon,            \* map centre longitude (1e-4 degrees)
    mapbox_style,   \* projection style name
    pc,             \* position inside vizualize_findings, or "lib"/"norm"
    err,            \* exception raised by the last call ([type, msg]) or NoErr
    events,         \* calls and external effects, in the order they happened
    displayed,      \* figure handed to fig.show(), or None
    written,        \* [path, fig] handed to fig.write_image(), or None
    series,         \* input column of normalize_column
    normalized      \* result of normalize_column, or None

vars == <<fig, df_houses, df_schools, df_county, parks, county, save_png, lat,
          lon, mapbox_style, pc, err, events, displayed, written, series,
          normalized>>

----------------------------------------------------------------------------
(* Bounds of the model.                                                    *)

MaxCalls == 3       \* library calls on one canvas in a session
MaxLen == 3         \* rows of a column given to normalize_column
MaxVal == 4         \* values of such a column range over 0..MaxVal

----------------------------------------------------------------------------
(* Python values.                                                          *)

None == [none |-> TRUE]
NoErr == [type |-> "none", msg |-> ""]

ValueError(msg) == [type |-> "ValueError", msg |-> msg]
KeyError(key) == [type |-> "KeyError", msg |-> key]

(* Exact quotients.                                                        *)
RECURSIVE GCD(_, _)
GCD(a, b) == IF b = 0 THEN a ELSE GCD(b, a % b)

Abs(x) == IF x < 0 THEN -x ELSE x
Sign(x) == IF x < 0 THEN -1 ELSE IF x > 0 THEN 1 ELSE 0

NaN == [num |-> 0, den |-> 0]

\* a / b as float division does it: 0/0 is NaN, x/0 is +-inf (den = 0).
TrueDiv(a, b) ==
    IF b = 0 THEN [num |-> Sign(a), den |-> 0]
    ELSE LET g == GCD(Abs(a), Abs(b))
         IN  [num |-> Sign(b) * (a \div g), den |-> Abs(b) \div g]

\* r + k and r * k for an integer k > 0; NaN and inf absorb both.
AddInt(r, k) == IF r.den = 0 THEN r ELSE TrueDiv(r.num + k * r.den, r.den)
MulInt(r, k) == IF r.den = 0 THEN r ELSE TrueDiv(r.num * k, r.den)

Frac(n, d) == TrueDiv(n, d)

RECURSIVE SeriesMin(_)
SeriesMin(s) ==
    IF Len(s) = 1 THEN s[1]
    ELSE LET m == SeriesMin(Tail(s)) IN IF s[1] < m THEN s[1] ELSE m

RECURSIVE SeriesMax(_)
SeriesMax(s) ==
    IF Len(s) = 1 THEN s[1]
    ELSE LET m == SeriesMax(Tail(s)) IN IF s[1] > m THEN s[1] ELSE m

----------------------------------------------------------------------------
(* pandas: a DataFrame maps column names to columns.                       *)

SetColumn(df, c, v) ==
    [k \in (DOMAIN df) \cup {c} |-> IF k = c THEN v ELSE df[k]]

DropColumn(df, c) == [k \in (DOMAIN df) \ {c} |-> df[k]]

\* the first name of cols (in list order) that is no column of df, or None
RECURSIVE FirstMissing(_, _)
FirstMissing(cols, df) ==
    IF cols = <<>> THEN None
    ELSE IF Head(cols) \notin DOMAIN df THEN [col |-> Head(cols)]
    ELSE FirstMissing(Tail(cols), df)

\* Series.str.replace('School-', '', case=False).str.strip() on the
\* descriptions that occur in the datasets of this model
StripSchool(desc) ==
    CASE desc = "School-Elementary" -> "Elementary"
      [] desc = "school-High " -> "High"
      [] desc = " School-Junior High" -> "Junior High"
      [] OTHER -> desc

----------------------------------------------------------------------------
(* plotly: go.Figure(), fig.add_trace, fig.update_layout.                  *)

EmptyFigure == [data |-> <<>>, layout |-> <<>>]

\* variant: the new trace goes in front of the earlier ones
add_trace_front(f, trace) == [f EXCEPT !.data = <<trace>> \o f.data]

add_trace(f, trace) == [f EXCEPT !.data = Append(f.data, trace)]

\* dict.update, key by key
MergeDict(old, upd) ==
    [k \in (DOMAIN old) \cup (DOMAIN upd) |->
        IF k \in DOMAIN upd THEN upd[k] ELSE old[k]]

\* BaseFigure._perform_update on an array of compound objects: an empty
\* array takes the value as it is; a non-empty one has the value merged
\* into its elements (cyclically) and only the surplus elements appended.
MergeArray(old, val) ==
    IF old = <<>> THEN val
    ELSE IF val = <<>> THEN old
    ELSE [i \in 1..(IF Len(val) > Len(old) THEN Len(val) ELSE Len(old)) |->
            IF i <= Len(old)
            THEN MergeDict(old[i], val[((i - 1) % Len(val)) + 1])
            ELSE val[i]]

ArrayProps == {"mapbox_layers"}

update_layout(f, upd) ==
    LET old == f.layout
        new == [k \in (DOMAIN old) \cup (DOMAIN upd) |->
                   IF k \notin DOMAIN upd THEN old[k]
                   ELSE IF k \in ArrayProps
                   THEN MergeArray(IF k \in DOMAIN old THEN old[k] ELSE <<>>,
                                   upd[k])
                   ELSE upd[k]]
    IN  [f EXCEPT !.layout = new]

MapboxLayers(f) ==
    IF "mapbox_layers" \in DOMAIN f.layout THEN f.layout["mapbox_layers"]
    ELSE <<>>

----------------------------------------------------------------------------
(* src/cust_func.py                                                        *)

\* variant: divides by the maximum instead of the range
normalize_column_by_max(s) ==
    IF s = <<>> THEN <<>>
    ELSE LET lo == SeriesMin(s)
             hi == SeriesMax(s)
         IN  [i \in DOMAIN s |-> TrueDiv(s[i] - lo, hi)]

normalize_column(s) ==
    IF s = <<>> THEN <<>>
    ELSE LET lo == SeriesMin(s)
             hi == SeriesMax(s)
         IN  [i \in DOMAIN s |-> TrueDiv(s[i] - lo, hi - lo)]

----------------------------------------------------------------------------
(* src/geo_plot.py: the Layer Builders.  Each returns the canvas and the   *)
(* dataset as the call leaves them, and the exception it raised, if any.   *)

HousesLegend == "Houses <br>cheap (small) to expensive (large)"
ChoroplethLegend ==
    "Average house quality <br>low (dark red) to high (bright yellow)"
ParksLegend == "Park outlines"
SchoolsLegend == "Schools"

\* the normalize_column nested in plotting_houses
houses_normalize_column(column) ==
    IF column = <<>> THEN <<>>
    ELSE LET lo == SeriesMin(column)
             hi == SeriesMax(column)
         IN  [i \in DOMAIN column |-> TrueDiv(column[i] - lo, hi - lo)]

\* variant: the +1 shift is left out
MarkerSizesNoShift(column) ==
    LET n == houses_normalize_column(column)
    IN  [i \in DOMAIN n |-> MulInt(n[i], 10)]

\* (normalize_column(df[price_col]) + 1) * 10
MarkerSizes(column) ==
    LET n == houses_normalize_column(column)
    IN  [i \in DOMAIN n |-> MulInt(AddInt(n[i], 1), 10)]

HousesHoverText(df, price_col, quality_col, bedrooms_col) ==
    [i \in DOMAIN df[price_col] |->
        "Price: " \o ToString(df[price_col][i]) \o "$"
        \o "<br>Quality: " \o ToString(df[quality_col][i])
        \o "<br>Bedrooms: " \o ToString(df[bedrooms_col][i])]

plotting_houses(df, f, price_col, quality_col, bedrooms_col, lat_col, long_col, legend_entry) ==
    LET required_columns ==
            <<price_col, quality_col, bedrooms_col, lat_col, long_col>>
        missing == FirstMissing(required_columns, df)
        df2 == SetColumn(df, "hover_text",
                   HousesHoverText(df, price_col, quality_col, bedrooms_col))
        trace == [type |-> "scattermapbox",
                  lat |-> df2[lat_col],
                  lon |-> df2[long_col],
                  mode |-> "markers",
                  marker |-> [size |-> MarkerSizes(df2[price_col]),
                              color |-> "blue"],
                  text |-> df2["hover_text"],
                  hoverinfo |-> "text",
                  name |-> legend_entry,
                  showlegend |-> TRUE]
    IN  IF missing # None
        THEN [fig |-> f, df |-> df,
              err |-> ValueError("Missing required column: " \o missing.col)]
        ELSE [fig |-> add_trace(f, trace), df |-> df2, err |-> NoErr]

ChoroplethHoverText(df, zipcode_col, house_quality_col) ==
    [i \in DOMAIN df[zipcode_col] |->
        "Zipcode: " \o ToString(df[zipcode_col][i])
        \o "<br>Quality: " \o ToString(df[house_quality_col][i])]

add_choropleth_map(df, f, counties, zipcode_col, house_quality_col, legend_entry) ==
    LET required_columns == <<zipcode_col, house_quality_col>>
        missing == FirstMissing(required_columns, df)
        df2 == SetColumn(df, "hover_text",
                   ChoroplethHoverText(df, zipcode_col, house_quality_col))
        trace == [type |-> "choroplethmapbox",
                  geojson |-> counties,
                  locations |-> df2[zipcode_col],
                  z |-> df2[house_quality_col],
                  colorscale |-> "Hot",
                  showscale |-> FALSE,
                  marker_opacity |-> Frac(4, 10),
                  featureidkey |-> "properties.ZCTA5CE10",
                  name |-> legend_entry,
                  text |-> df2["hover_text"],
                  hoverinfo |-> "text",
                  showlegend |-> TRUE]
    IN  IF missing # None
        THEN [fig |-> f, df |-> df,
              err |-> ValueError("Missing required column: " \o missing.col)]
        ELSE [fig |-> add_trace(f, trace), df |-> df2, err |-> NoErr]

ParkOverlay(parks_geo) ==
    [sourcetype |-> "geojson",
     source |-> parks_geo,
     type |-> "line",
     color |-> "green",
     line |-> [width |-> Frac(15, 10)]]

add_park_outlines_layer(f, parks_geo, legend_entry) ==
    LET trace == [type |-> "scattermapbox",
                  lat |-> <<None>>,
                  lon |-> <<None>>,
                  mode |-> "lines",
                  line |-> [width |-> 3, color |-> "green"],
                  name |-> legend_entry,
                  showlegend |-> TRUE]
        f1 == add_trace(f, trace)
    IN  [fig |-> update_layout(f1,
                    [mapbox_layers |-> <<ParkOverlay(parks_geo)>>]),
         err |-> NoErr]

SchoolsHoverText(gdf, name_col, desc_col) ==
    [i \in DOMAIN gdf[name_col] |->
        gdf[name_col][i] \o "<br>" \o StripSchool(gdf[desc_col][i])]

\* No column check here: a missing column surfaces as the KeyError of the
\* first gdf_schools[...] that reads it (name, desc, then lat, lon), the
\* last two after hover_text has been written to the dataset.
add_schools_layer(f, gdf_schools, lat_col, lon_col, name_col, desc_col, legend_entry) ==
    LET gdf2 == SetColumn(gdf_schools, "hover_text",
                    SchoolsHoverText(gdf_schools, name_col, desc_col))
        trace == [type |-> "scattermapbox",
                  lat |-> gdf2[lat_col],
                  lon |-> gdf2[lon_col],
                  mode |-> "markers",
                  marker |-> [size |-> 4, color |-> "darkred",
                              opacity |-> Frac(8, 10), symbol |-> "circle"],
                  text |-> gdf2["hover_text"],
                  hoverinfo |-> "text",
                  name |-> legend_entry,
                  showlegend |-> TRUE]
    IN  IF name_col \notin DOMAIN gdf_schools
        THEN [fig |-> f, df |-> gdf_schools, err |-> KeyError(name_col)]
        ELSE IF desc_col \notin DOMAIN gdf_schools
        THEN [fig |-> f, df |-> gdf_schools, err |-> KeyError(desc_col)]
        ELSE IF lat_col \notin DOMAIN gdf2
        THEN [fig |-> f, df |-> gdf2, err |-> KeyError(lat_col)]
        ELSE IF lon_col \notin DOMAIN gdf2
        THEN [fig |-> f, df |-> gdf2, err |-> KeyError(lon_col)]
        ELSE [fig |-> add_trace(f, trace), df |-> gdf2, err |-> NoErr]

\* variant: assigns a fresh layout instead of updating the one in place
update_map_layout_assign(f, center_lat, center_lon, style) ==
    [f EXCEPT !.layout =
        [mapbox_style |-> style,
         mapbox_zoom |-> 9,
         mapbox_center |-> [lat |-> center_lat, lon |-> center_lon],
         margin |-> [r |-> 0, t |-> 0, l |-> 0, b |-> 0],
         legend |-> [title |-> "Legend", orientation |-> "v",
                     yanchor |-> "top", y |-> Frac(99, 100),
                     xanchor |-> "left", x |-> Frac(1, 100)],
         width |-> 1000,
         height |-> 1000]]

\* src/geo_plot.py: the Layout Finalizer
update_map_layout(f, center_lat, center_lon, style) ==
    update_layout(f,
        [mapbox_style |-> style,
         mapbox_zoom |-> 9,
         mapbox_center |-> [lat |-> center_lat, lon |-> center_lon],
         margin |-> [r |-> 0, t |-> 0, l |-> 0, b |-> 0],
         legend |-> [title |-> "Legend", orientation |-> "v",
                     yanchor |-> "top", y |-> Frac(99, 100),
                     xanchor |-> "left", x |-> Frac(1, 100)],
         width |-> 1000,
         height |-> 1000])

----------------------------------------------------------------------------
(* Inputs: the datasets, geometry collections and arguments a caller       *)
(* passes.  A dataset is valid or lacks exactly one required column.       *)

HouseColumns == <<"price", "house_quality", "bedrooms", "lat", "long">>
CountyColumns == <<"zipcode", "house_quality">>
\* in the order add_schools_layer reads them
SchoolColumns == <<"ABB_NAME", "FEATUREDES", "LAT_CEN", "LONG_CEN">>

Range(s) == {s[i] : i \in DOMAIN s}

PriceColumns == {<<100, 200, 300>>, <<300, 100, 200>>, <<250, 250>>, <<450>>}

HouseDF(prices) ==
    [price |-> prices,
     house_quality |-> [i \in DOMAIN prices |-> 6 + i],
     bedrooms |-> [i \in DOMAIN prices |-> 1 + i],
     lat |-> [i \in DOMAIN prices |-> 475000 + i],
     long |-> [i \in DOMAIN prices |-> (-1220000) - i]]

SchoolDF ==
    [LAT_CEN |-> <<476001, 476002, 476003>>,
     LONG_CEN |-> <<-1221001, -1221002, -1221003>>,
     ABB_NAME |-> <<"Lincoln", "Roosevelt", "Adams">>,
     FEATUREDES |-> <<"School-Elementary", "school-High ",
                      " School-Junior High">>]

CountyDF ==
    [zipcode |-> <<98001, 98002>>,
     house_quality |-> <<7, 9>>]

ValidHouseDFs == {HouseDF(p) : p \in PriceColumns}
BadHouseDFs ==
    {DropColumn(HouseDF(<<100, 200, 300>>), c) : c \in Range(HouseColumns)}
BadSchoolDFs == {DropColumn(SchoolDF, c) : c \in Range(SchoolColumns)}
BadCountyDFs == {DropColumn(CountyDF, c) : c \in Range(CountyColumns)}

HouseDFs == ValidHouseDFs \cup BadHouseDFs
SchoolDFs == {SchoolDF} \cup BadSchoolDFs
CountyDFs == {CountyDF} \cup BadCountyDFs

ParksSet == {[geojson |-> "parks_a"], [geojson |-> "parks_b"]}
CountySet == {[geojson |-> "zipcodes"]}
PathSet == {[path |-> "map.png"]}

\* (lat, lon) in 1e-4 degrees: the defaults of the signature and those of
\* the docstring of vizualize_findings
DefaultCenter == <<473464, -1219861>>
Centers == {DefaultCenter, <<476003, -1221755>>}
Styles == {"open-street-map", "carto-positron"}

----------------------------------------------------------------------------
(* Specification Spec: a caller builds one canvas with go.Figure() and     *)
(* calls the builders and the finalizer on it, in any order.  A raised     *)
(* exception is caught by the caller, who may go on.                       *)

Init ==
    /\ fig = EmptyFigure
    /\ df_houses \in HouseDFs
    /\ df_schools \in SchoolDFs
    /\ df_county \in CountyDFs
    /\ parks = None
    /\ county \in CountySet
    /\ save_png = None
    /\ \E c \in Centers : lat = c[1] /\ lon = c[2]
    /\ mapbox_style = "open-street-map"
    /\ pc = "lib"
    /\ err = NoErr
    /\ events = <<>>
    /\ displayed = None
    /\ written = None
    /\ series = <<>>
    /\ normalized = None

CanCall == pc = "lib" /\ Len(events) < MaxCalls

CallPlottingHouses ==
    /\ CanCall
    /\ LET r == plotting_houses(df_houses, fig, "price", "house_quality",
                                "bedrooms", "lat", "long", HousesLegend)
       IN  /\ fig' = r.fig
           /\ df_houses' = r.df
           /\ err' = r.err
    /\ events' = Append(events, "plotting_houses")
    /\ UNCHANGED <<df_schools, df_county, parks, county, save_png, lat, lon,
                   mapbox_style, pc, displayed, written, series, normalized>>

CallAddChoroplethMap ==
    /\ CanCall
    /\ LET r == add_choropleth_map(df_county, fig, county, "zipcode",
                                   "house_quality", ChoroplethLegend)
       IN  /\ fig' = r.fig
           /\ df_county' = r.df
           /\ err' = r.err
    /\ events' = Append(events, "add_choropleth_map")
    /\ UNCHANGED <<df_houses, df_schools, parks, county, save_png, lat, lon,
                   mapbox_style, pc, displayed, written, series, normalized>>

CallAddParkOutlinesLayer ==
    /\ CanCall
    /\ \E p \in ParksSet :
          LET r == add_park_outlines_layer(fig, p, ParksLegend)
          IN  /\ fig' = r.fig
              /\ err' = r.err
    /\ events' = Append(events, "add_park_outlines_layer")
    /\ UNCHANGED <<df_houses, df_schools, df_county, parks, county, save_png,
                   lat, lon, mapbox_style, pc, displayed, written, series,
                   normalized>>

CallAddSchoolsLayer ==
    /\ CanCall
    /\ LET r == add_schools_layer(fig, df_schools, "LAT_CEN", "LONG_CEN",
                                  "ABB_NAME", "FEATUREDES", SchoolsLegend)
       IN  /\ fig' = r.fig
           /\ df_schools' = r.df
           /\ err' = r.err
    /\ events' = Append(events, "add_schools_layer")
    /\ UNCHANGED <<df_houses, df_county, parks, county, save_png, lat, lon,
                   mapbox_style, pc, displayed, written, series, normalized>>

CallUpdateMapLayout ==
    /\ CanCall
    /\ fig' = update_map_layout(fig, lat, lon, mapbox_style)
    /\ err' = NoErr
    /\ events' = Append(events, "update_map_layout")
    /\ UNCHANGED <<df_houses, df_schools, df_county, parks, county, save_png,
                   lat, lon, mapbox_style, pc, displayed, written, series,
                   normalized>>

Next ==
    \/ CallPlottingHouses
    \/ CallAddChoroplethMap
    \/ CallAddParkOutlinesLayer
    \/ CallAddSchoolsLayer
    \/ CallUpdateMapLayout

Spec == Init /\ [][Next]_vars

----------------------------------------------------------------------------
(* Specification SpecViz: one call of vizualize_findings, statement by     *)
(* statement.  pc names the statement to run next; an exception raised by  *)
(* a builder leaves the function at once (pc = "raised").                  *)

InitViz ==
    /\ fig = None
    /\ df_houses \in {None} \cup HouseDFs
    /\ df_schools \in {None} \cup SchoolDFs
    /\ df_county \in {None} \cup CountyDFs
    /\ parks \in {None, [geojson |-> "parks_a"]}
    /\ county \in {None} \cup CountySet
    /\ save_png \in {None} \cup PathSet
    /\ \E c \in Centers : lat = c[1] /\ lon = c[2]
    /\ mapbox_style \in Styles
    /\ pc = "start"
    /\ err = NoErr
    /\ events = <<>>
    /\ displayed = None
    /\ written = None
    /\ series = <<>>
    /\ normalized = None

\* variant: the exception is swallowed and the function goes on
AfterCallSwallowed(e, following) == following

\* where control goes after a builder call that ended with exception e
AfterCall(e, following) == IF e = NoErr THEN following ELSE "raised"

\* fig = go.Figure()
VizFigure ==
    /\ pc = "start"
    /\ fig' = EmptyFigure
    /\ pc' = "region"
    /\ UNCHANGED <<df_houses, df_schools, df_county, parks, county, save_png,
                   lat, lon, mapbox_style, err, events, displayed, written,
                   series, normalized>>

\* variant: the region layer is built whenever df_county is given
VizRegionAnyCounty ==
    /\ pc = "region"
    /\ IF df_county # None
       THEN LET r == add_choropleth_map(df_county, fig, county, "zipcode",
                                        "house_quality", ChoroplethLegend)
            IN  /\ fig' = r.fig
                /\ df_county' = r.df
                /\ err' = r.err
                /\ events' = Append(events, "add_choropleth_map")
                /\ pc' = AfterCall(r.err, "outline")
       ELSE /\ pc' = "outline"
            /\ UNCHANGED <<fig, df_county, err, events>>
    /\ UNCHANGED <<df_houses, df_schools, parks, county, save_png, lat, lon,
                   mapbox_style, displayed, written, series, normalized>>

\* if df_county is not None and county is not None: add_choropleth_map(...)
VizRegion ==
    /\ pc = "region"
    /\ IF df_county # None /\ county # None
       THEN LET r == add_choropleth_map(df_county, fig, county, "zipcode",
                                        "house_quality", ChoroplethLegend)
            IN  /\ fig' = r.fig
                /\ df_county' = r.df
                /\ err' = r.err
                /\ events' = Append(events, "add_choropleth_map")
                /\ pc' = AfterCall(r.err, "outline")
       ELSE /\ pc' = "outline"
            /\ UNCHANGED <<fig, df_county, err, events>>
    /\ UNCHANGED <<df_houses, df_schools, parks, county, save_png, lat, lon,
                   mapbox_style, displayed, written, series, normalized>>

\* if parks is not None: add_park_outlines_layer(fig, parks)
VizOutline ==
    /\ pc = "outline"
    /\ IF parks # None
       THEN LET r == add_park_outlines_layer(fig, parks, ParksLegend)
            IN  /\ fig' = r.fig
                /\ err' = r.err
                /\ events' = Append(events, "add_park_outlines_layer")
                /\ pc' = AfterCall(r.err, "school")
       ELSE /\ pc' = "school"
            /\ UNCHANGED <<fig, err, events>>
    /\ UNCHANGED <<df_houses, df_schools, df_county, parks, county, save_png,
                   lat, lon, mapbox_style, displayed, written, series,
                   normalized>>

\* if df_schools is not None: add_schools_layer(fig, df_schools)
VizSchool ==
    /\ pc = "school"
    /\ IF df_schools # None
       THEN LET r == add_schools_layer(fig, df_schools, "LAT_CEN",
                         "LONG_CEN", "ABB_NAME", "FEATUREDES", SchoolsLegend)
            IN  /\ fig' = r.fig
                /\ df_schools' = r.df
                /\ err' = r.err
                /\ events' = Append(events, "add_schools_layer")
                /\ pc' = AfterCall(r.err, "house")
       ELSE /\ pc' = "house"
            /\ UNCHANGED <<fig, df_schools, err, events>>
    /\ UNCHANGED <<df_houses, df_county, parks, county, save_png, lat, lon,
                   mapbox_style, displayed, written, series, normalized>>

\* if df_houses is not None: plotting_houses(df_houses, fig)
VizHouse ==
    /\ pc = "house"
    /\ IF df_houses # None
       THEN LET r == plotting_houses(df_houses, fig, "price",
                         "house_quality", "bedrooms", "lat", "long",
                         HousesLegend)
            IN  /\ fig' = r.fig
                /\ df_houses' = r.df
                /\ err' = r.err
                /\ events' = Append(events, "plotting_houses")
                /\ pc' = AfterCall(r.err, "layout")
       ELSE /\ pc' = "layout"
            /\ UNCHANGED <<fig, df_houses, err, events>>
    /\ UNCHANGED <<df_schools, df_county, parks, county, save_png, lat, lon,
                   mapbox_style, displayed, written, series, normalized>>

\* update_map_layout(fig, lat, lon, mapbox_style)
VizLayout ==
    /\ pc = "layout"
    /\ fig' = update_map_layout(fig, lat, lon, mapbox_style)
    /\ events' = Append(events, "update_map_layout")
    /\ pc' = "show"
    /\ UNCHANGED <<df_houses, df_schools, df_county, parks, county, save_png,
                   lat, lon, mapbox_style, err, displayed, written, series,
                   normalized>>

\* fig.show()
VizShow ==
    /\ pc = "show"
    /\ displayed' = fig
    /\ events' = Append(events, "show")
    /\ pc' = "export"
    /\ UNCHANGED <<fig, df_houses, df_schools, df_county, parks, county,
                   save_png, lat, lon, mapbox_style, err, written, series,
                   normalized>>

\* variant: the export runs whether or not a path was given
VizExportAlways ==
    /\ pc = "export"
    /\ written' = [path |-> save_png, fig |-> fig]
    /\ events' = Append(events, "write_image")
    /\ pc' = "done"
    /\ UNCHANGED <<fig, df_houses, df_schools, df_county, parks, county,
                   save_png, lat, lon, mapbox_style, err, displayed, series,
                   normalized>>

\* if save_png is not None: fig.write_image(save_png)
VizExport ==
    /\ pc = "export"
    /\ IF save_png # None
       THEN /\ written' = [path |-> save_png, fig |-> fig]
            /\ events' = Append(events, "write_image")
       ELSE UNCHANGED <<written, events>>
    /\ pc' = "done"
    /\ UNCHANGED <<fig, df_houses, df_schools, df_county, parks, county,
                   save_png, lat, lon, mapbox_style, err, displayed, series,
                   normalized>>

NextViz ==
    \/ VizFigure
    \/ VizRegion
    \/ VizOutline
    \/ VizSchool
    \/ VizHouse
    \/ VizLayout
    \/ VizShow
    \/ VizExport

SpecViz == InitViz /\ [][NextViz]_vars

----------------------------------------------------------------------------
(* Specification SpecNorm: normalize_column applied to a column of         *)
(* integers, by the helper of cust_func.py or by the copy nested in        *)
(* plotting_houses.                                                        *)

Columns == UNION {[1..n -> 0..MaxVal] : n \in 0..MaxLen}

InitNorm ==
    /\ fig = None
    /\ df_houses = None
    /\ df_schools = None
    /\ df_county = None
    /\ parks = None
    /\ county = None
    /\ save_png = None
    /\ lat = DefaultCenter[1]
    /\ lon = DefaultCenter[2]
    /\ mapbox_style = "open-street-map"
    /\ pc = "norm"
    /\ err = NoErr
    /\ events = <<>>
    /\ displayed = None
    /\ written = None
    /\ series \in Columns
    /\ normalized = None

Normalize ==
    /\ pc = "norm"
    /\ normalized' = [values |-> normalize_column(series)]
    /\ events' = Append(events, "normalize_column")
    /\ pc' = "norm_done"
    /\ UNCHANGED <<fig, df_houses, df_schools, df_county, parks, county,
                   save_png, lat, lon, mapbox_style, err, displayed, written,
                   series>>

NormalizePrices ==
    /\ pc = "norm"
    /\ normalized' = [values |-> houses_normalize_column(series)]
    /\ events' = Append(events, "plotting_houses.normalize_column")
    /\ pc' = "norm_done"
    /\ UNCHANGED <<fig, df_houses, df_schools, df_county, parks, county,
                   save_png, lat, lon, mapbox_style, err, displayed, written,
                   series>>

NextNorm ==
    \/ Normalize
    \/ NormalizePrices

SpecNorm == InitNorm /\ [][NextNorm]_vars

----------------------------------------------------------------------------
(* Properties.                                                             *)

\* the step is a call of op
IsCall(op) == events' = Append(events, op)

LastEvent == IF events = <<>> THEN "" ELSE events[Len(events)]

IsPrefix(a, b) == Len(a) <= Len(b) /\ SubSeq(b, 1, Len(a)) = a

\* the optional group a trace of the canvas belongs to
LayerGroup(trace) ==
    CASE trace.type = "choroplethmapbox" -> "region"
      [] trace.type = "scattermapbox" /\ trace.mode = "lines" -> "outline"
      [] trace.type = "scattermapbox" /\ trace.name = SchoolsLegend -> "school"
      [] trace.type = "scattermapbox" /\ trace.name = HousesLegend -> "house"
      [] OTHER -> "unknown"

Groups(f) == [i \in DOMAIN f.data |-> LayerGroup(f.data[i])]

Supplied(g) ==
    CASE g = "region" -> df_county # None /\ county # None
      [] g = "outline" -> parks # None
      [] g = "school" -> df_schools # None
      [] g = "house" -> df_houses # None

SuppliedGroups ==
    SelectSeq(<<"region", "outline", "school", "house">>, Supplied)

LayoutConfigured(f, center_lat, center_lon, style) ==
    /\ {"mapbox_style", "mapbox_zoom", "mapbox_center", "margin", "legend",
        "width", "height"} \subseteq DOMAIN f.layout
    /\ f.layout["mapbox_style"] = style
    /\ f.layout["mapbox_zoom"] = 9
    /\ f.layout["mapbox_center"] = [lat |-> center_lat, lon |-> center_lon]
    /\ f.layout["margin"] = [r |-> 0, t |-> 0, l |-> 0, b |-> 0]
    /\ f.layout["legend"].orientation = "v"
    /\ f.layout["legend"].yanchor = "top"
    /\ f.layout["legend"].xanchor = "left"
    /\ f.layout["width"] = 1000
    /\ f.layout["height"] = 1000

\* C1: whenever vizualize_findings displays the canvas, its trace list is
\* exactly the subsequence of [region, outline, school, house] made of the
\* supplied groups (region only when df_county and county are both given),
\* one layer per supplied group, and the layout has been applied, also when
\* no group is supplied.
C1_TracesAtDisplay ==
    displayed # None =>
        /\ Groups(displayed) = SuppliedGroups
        /\ LayoutConfigured(displayed, lat, lon, mapbox_style)

C1_Witness ==
    /\ displayed # None
    /\ Groups(displayed) = <<"region", "outline", "school", "house">>

\* C2: a call of any Layer Builder with a dataset that lacks one of its
\* required columns raises ValueError 'Missing required column: <col>' for
\* that column and leaves the number of layers of the canvas unchanged.
C2_MissingColumnError ==
    [][ /\ IsCall("plotting_houses") =>
              \A c \in Range(HouseColumns) :
                  c \notin DOMAIN df_houses =>
                      /\ err' = ValueError("Missing required column: " \o c)
                      /\ Len(fig'.data) = Len(fig.data)
        /\ IsCall("add_choropleth_map") =>
              \A c \in Range(CountyColumns) :
                  c \notin DOMAIN df_county =>
                      /\ err' = ValueError("Missing required column: " \o c)
                      /\ Len(fig'.data) = Len(fig.data)
        /\ IsCall("add_schools_layer") =>
              \A c \in Range(SchoolColumns) :
                  c \notin DOMAIN df_schools =>
                      /\ err' = ValueError("Missing required column: " \o c)
                      /\ Len(fig'.data) = Len(fig.data)
      ]_vars

\* C3: once a Layer Builder has raised inside vizualize_findings, the
\* canvas is neither displayed (fig.show) nor exported (fig.write_image):
\* the call has been left, whichever group carried the bad dataset.
C3_NoDisplayAfterFailure ==
    err # NoErr =>
        /\ pc = "raised"
        /\ displayed = None
        /\ written = None
        /\ "show" \notin Range(events)
        /\ "write_image" \notin Range(events)
        /\ "update_map_layout" \notin Range(events)
        /\ ~ ENABLED NextViz

C3_Witness ==
    /\ err # NoErr
    /\ pc = "raised"
    /\ Len(events) = 4

ExpectedEvents ==
    (IF Supplied("region") THEN <<"add_choropleth_map">> ELSE <<>>)
    \o (IF Supplied("outline") THEN <<"add_park_outlines_layer">> ELSE <<>>)
    \o (IF Supplied("school") THEN <<"add_schools_layer">> ELSE <<>>)
    \o (IF Supplied("house") THEN <<"plotting_houses">> ELSE <<>>)
    \o <<"update_map_layout", "show">>
    \o (IF save_png # None THEN <<"write_image">> ELSE <<>>)

\* C4: the events of a call of vizualize_findings happen in the order
\* region, outline, school, house builder (each only if supplied), Layout
\* Finalizer, display, export (only if save_png is given): at every moment
\* the events so far are a prefix of that sequence, and a call that returns
\* has performed exactly that sequence, the finalizer once.
C4_EventOrder ==
    /\ IsPrefix(events, ExpectedEvents)
    /\ pc = "done" => events = ExpectedEvents
    /\ pc = "done" =>
          Cardinality({i \in DOMAIN events :
                          events[i] = "update_map_layout"}) = 1
    /\ save_png = None => written = None

C4_Witness ==
    /\ pc = "done"
    /\ Len(events) = 7
    /\ written # None

\* C5: a call of plotting_houses, add_choropleth_map or add_schools_layer
\* leaves the caller's dataset as it was: same columns, same values.
C5_DatasetUnchanged ==
    [][ /\ IsCall("plotting_houses") => df_houses' = df_houses
        /\ IsCall("add_choropleth_map") => df_county' = df_county
        /\ IsCall("add_schools_layer") => df_schools' = df_schools
      ]_vars

IsHouseLayer(trace) == LayerGroup(trace) = "house"

\* C6 as stated: for the houses priced 100, 200, 300 the marker sizes of
\* the house layer are 10, 20, 30.
C6_SizesAsStated ==
    \A i \in DOMAIN fig.data :
        IsHouseLayer(fig.data[i]) /\ df_houses["price"] = <<100, 200, 300>>
            => fig.data[i].marker.size
                   = <<Frac(10, 1), Frac(20, 1), Frac(30, 1)>>

\* C6 amended: for the houses priced 100, 200, 300 the marker sizes of the
\* house layer, (normalized + 1) * 10, are 10, 15, 20 in row order.
C6_Sizes ==
    \A i \in DOMAIN fig.data :
        IsHouseLayer(fig.data[i]) /\ df_houses["price"] = <<100, 200, 300>>
            => fig.data[i].marker.size
                   = <<Frac(10, 1), Frac(15, 1), Frac(20, 1)>>

C6_Witness ==
    /\ \E i \in DOMAIN fig.data : IsHouseLayer(fig.data[i])
    /\ LastEvent = "plotting_houses"
    /\ df_houses["price"] = <<100, 200, 300>>

Zero == [num |-> 0, den |-> 1]
One == [num |-> 1, den |-> 1]

\* C8: for a non-empty column whose maximum exceeds its minimum,
\* normalize_column returns a column of the same length in which every
\* minimum is exactly 0, every maximum exactly 1 and every value strictly
\* between them a fraction strictly between 0 and 1.
C8_Normalized ==
    LET lowest(v) == \A j \in DOMAIN series : series[j] >= v
        highest(v) == \A j \in DOMAIN series : series[j] <= v
    IN  /\ normalized # None
        /\ series # <<>>
        /\ \E j, k \in DOMAIN series : series[j] < series[k]
        => /\ Len(normalized.values) = Len(series)
           /\ \A i \in DOMAIN series :
                 LET r == normalized.values[i]
                 IN  /\ lowest(series[i]) => r = Zero
                     /\ highest(series[i]) => r = One
                     /\ ~lowest(series[i]) /\ ~highest(series[i])
                           => r.den > 0 /\ 0 < r.num /\ r.num < r.den

C8_Witness ==
    /\ normalized # None
    /\ LastEvent = "normalize_column"
    /\ series = <<1, 0, 4>>
    /\ normalized.values = <<Frac(1, 4), Zero, One>>

\* C9: update_map_layout is idempotent: on every canvas and for every
\* (lat, lon, mapbox_style), a second call with the same arguments gives
\* the canvas the first call gave, with the style, zoom 9, centre, zero
\* margins, vertical top-left legend and 1000x1000 size set; the trace list
\* and the registered overlays are those from before the call.
C9_Idempotent ==
    /\ [](\A c \in Centers, s \in Styles :
            LET once == update_map_layout(fig, c[1], c[2], s)
                twice == update_map_layout(once, c[1], c[2], s)
            IN  /\ twice = once
                /\ LayoutConfigured(once, c[1], c[2], s)
                /\ once.data = fig.data
                /\ MapboxLayers(once) = MapboxLayers(fig))
    /\ [][ IsCall("update_map_layout") =>
              /\ LayoutConfigured(fig', lat, lon, mapbox_style)
              /\ fig'.data = fig.data
              /\ MapboxLayers(fig') = MapboxLayers(fig)
              /\ LastEvent = "update_map_layout" => fig' = fig
         ]_vars

C9_Witness ==
    /\ events = <<"add_park_outlines_layer", "update_map_layout",
                  "update_map_layout">>
    /\ Len(MapboxLayers(fig)) = 1
    /\ LayoutConfigured(fig, lat, lon, mapbox_style)

OutlineEntries(f) ==
    SelectSeq(f.data, LAMBDA t : LayerGroup(t) = "outline")

\* C10: every call of add_park_outlines_layer adds exactly one legend-entry
\* layer and exactly one overlay registration and removes none, so that the
\* canvas always holds as many polygon overlays as outline legend entries,
\* pairwise of the same color.
C10_OverlayPerCall ==
    [][ IsCall("add_park_outlines_layer") =>
          /\ Len(fig'.data) = Len(fig.data) + 1
          /\ Len(MapboxLayers(fig')) = Len(MapboxLayers(fig)) + 1
          /\ SubSeq(MapboxLayers(fig'), 1, Len(MapboxLayers(fig)))
                = MapboxLayers(fig)
          /\ Len(MapboxLayers(fig')) = Len(OutlineEntries(fig'))
          /\ \A i \in DOMAIN MapboxLayers(fig') :
                MapboxLayers(fig')[i].color
                    = OutlineEntries(fig')[i].line.color
      ]_vars

====
